---------------------------- MODULE Spec2Model ----------------------------
(***************************************************************************)
(* Model of loop_ivdep.cpp: the kernel of TransposeAndFold<safe_len>, run  *)
(* as a pipeline whose outer-loop overlap is bounded by safe_len, and the  *)
(* harness in main that runs it twice and compares the two outputs.        *)
(*                                                                         *)
(* Floats are modelled as naturals with a Mant-bit mantissa: every sum is  *)
(* rounded to nearest, ties to even, so addition is not associative and a  *)
(* lost or extra accumulation changes the result.                          *)
(***************************************************************************)
EXTENDS Integers, Sequences, FiniteSets, TLC

VARIABLES
    pc,               \* position of main: "call1", "call2", "verify", "exit", "terminated"
    hp,               \* position inside TransposeAndFold: "queue", "submit", "init",
                      \*   "loop", "profile", "idle"
    inst,             \* <<safe_len of the first call, safe_len of the second call>>
    A, B, C,          \* the three std::array<float, kMatrixSize> of main
    in_buffer,        \* kernel-local float in_buffer[kRowLength][kRowLength]
    temp_buffer,      \* kernel-local float temp_buffer[kRowLength][kRowLength]
    accessor_output,  \* the device side of buffer_output
    issued,           \* outer iterations j whose reads have been issued
    pending,          \* issued iterations whose stores are outstanding: j -> row of sums
    vi,               \* index i of the verification loop
    exitCode,         \* return value of main, NoExit until it returns
    report,           \* what was printed: counts of PASSED, FAILED and diagnostics
    attempts,         \* history: per call, how often the queue was constructed
    cnt,              \* history: per accumulator row, stores committed in this call
    addends,          \* history: per accumulator cell, the set of values added to it
    lastIter,         \* history: per accumulator row, the last iteration that stored to it
    minGap            \* history: least distance between two stores to the same row

vars == <<pc, hp, inst, A, B, C, in_buffer, temp_buffer, accessor_output, issued,
          pending, vi, exitCode, report, attempts, cnt, addends, lastIter, minGap>>

---------------------------------------------------------------------------
(* Bounds of the model *)

\* Row length of the matrices (128 in the source, scaled down here).
kRowLength == 2

\* The input matrix holds the values 0 and MaxVal.
MaxVal == 3

\* Mantissa width of the modelled float.
Mant == 2

---------------------------------------------------------------------------
(* Constants of the program *)

kMinSafelen == 1

kMaxSafelen == kRowLength

kMatrixSize == kRowLength * kRowLength

\* Variant: one pass over the matrix instead of kRowLength passes.
LoopBoundOnePass == kMatrixSize

\* Bound of the outer loop, `j < kMatrixSize * kRowLength`.
LoopBound == kMatrixSize * kRowLength

Idx == 0 .. (kRowLength - 1)

Cells == 0 .. (kMatrixSize - 1)

\* An element that has not been written since its array was declared.
Undef == -1

\* main has not returned.
NoExit == -1

---------------------------------------------------------------------------
(* Single-precision addition, scaled to a Mant-bit mantissa *)

RECURSIVE Pow2(_)
Pow2(n) == IF n = 0 THEN 1 ELSE 2 * Pow2(n - 1)

\* The unit in the last place of x: the least 2^e with x < 2^(Mant + e).
RECURSIVE Ulp(_, _)
Ulp(x, u) == IF x < Pow2(Mant) * u THEN u ELSE Ulp(x, 2 * u)

\* Round to nearest representable value, ties to the even mantissa.
Round(x) ==
    LET u  == Ulp(x, 1)
        lo == (x \div u) * u
        r  == x - lo
    IN  IF 2 * r < u THEN lo
        ELSE IF 2 * r > u THEN lo + u
        ELSE IF (lo \div u) % 2 = 0 THEN lo ELSE lo + u

\* float + float
FAdd(a, b) == Round(a + b)

\* The values rand() / RAND_MAX can take in the model.
Vals == {0, Round(MaxVal)}

---------------------------------------------------------------------------
(* The kernel *)

\* Variant: the row changes only every kRowLength iterations.
RowBlocked(j) == (j \div kRowLength) % kRowLength

\* The accumulator row written by outer iteration j, `j % kRowLength`.
Row(j) == j % kRowLength

\* Lines 48-51, in_buffer[i / kRowLength][i % kRowLength] = accessor_input[i].
LoadInput(m) == [r \in Idx |-> [c \in Idx |-> m[r * kRowLength + c]]]

\* Variant: the accumulator is left as the declaration found it.
ZeroBufferKeep(old) == old

\* Lines 48-51, temp_buffer[i / kRowLength][i % kRowLength] = 0.
ZeroBuffer(old) == [r \in Idx |-> [c \in Idx |-> 0]]

\* Variant: reads never wait for earlier stores.
MayIssueAlways(j, len, pend) == TRUE

\* Variant: the window of overlapping iterations is one too wide.
MayIssueOffByOne(j, len, pend) == \A k \in DOMAIN pend : j - k <= len

\* The ivdep(safe_len) contract: the read of iteration j waits only for the
\* stores of iterations safe_len or more before it, so only iterations fewer
\* than safe_len apart overlap.
MayIssue(j, len, pend) == \A k \in DOMAIN pend : j - k < len

\* Variant: the write-out loop stops after kRowLength elements.
WriteResultOneRow(tb) ==
    [i \in Cells |-> IF i < kRowLength THEN tb[i \div kRowLength][i % kRowLength] ELSE Undef]

\* Lines 66-68, accessor_output[i] = temp_buffer[i / kRowLength][i % kRowLength].

WriteResult(tb) == [i \in Cells |-> tb[i \div kRowLength][i % kRowLength]]

\* The safe_len of the call main is in.
safe_len == IF pc = "call1" THEN inst[1] ELSE inst[2]

InCall == pc \in {"call1", "call2"}

\* Variant: the input is read without the transposition.
AddendSameIndex(ib, j, i) == ib[Row(j)][i]

\* Line 61, the value iteration j adds to temp_buffer[j % kRowLength][i].
Addend(ib, j, i) == ib[i][Row(j)]

\* The orders in which the kRowLength instances of the unrolled inner loop
\* can take effect; <<0, 1, ...>> is the order of the loop as written.
LaneOrders == {o \in [1 .. kRowLength -> Idx] : \A x, y \in 1 .. kRowLength : x # y => o[x] # o[y]}

\* Lines 60-62, `temp_buffer[j % kRowLength][i] += in_buffer[i][j % kRowLength]`
\* for the lanes i of outer iteration j in the given order, on the row of
\* temp_buffer the iteration read.
RECURSIVE InnerLoop(_, _, _, _)
InnerLoop(row, ib, j, order) ==
    IF order = <<>> THEN row
    ELSE LET i == Head(order)
         IN  InnerLoop([row EXCEPT ![i] = FAdd(row[i], Addend(ib, j, i))], ib, j, Tail(order))

InnerSums(tb, ib, j, order) == InnerLoop(tb[Row(j)], ib, j, order)

\* Variant: the comparison never reports a difference.
MismatchNever(b, c) == FALSE

\* Line 124, B[i] != C[i].
Mismatch(b, c) == b # c

NoPending == [k \in {} |-> 0]

UndefArray == [i \in Cells |-> Undef]

UndefBuffer == [r \in Idx |-> [c \in Idx |-> Undef]]

Abs(x) == IF x < 0 THEN -x ELSE x

Min(x, y) == IF x < y THEN x ELSE y

---------------------------------------------------------------------------
(* TransposeAndFold<safe_len> *)

\* Lines 32-33: the queue is constructed on the selected device.
QueueCreate ==
    /\ InCall /\ hp = "queue"
    /\ hp' = "submit"
    /\ attempts' = [attempts EXCEPT ![IF pc = "call1" THEN 1 ELSE 2] = @ + 1]
    /\ UNCHANGED <<pc, inst, A, B, C, in_buffer, temp_buffer, accessor_output, issued,
                   pending, vi, exitCode, report, cnt, addends, lastIter, minGap>>

\* Lines 35-42: the buffers are made and the kernel is submitted; the output
\* accessor is write_only, no_init, and the kernel's local arrays are new.
Submit ==
    /\ InCall /\ hp = "submit"
    /\ hp' = "init"
    /\ accessor_output' = UndefArray
    /\ UNCHANGED <<pc, inst, A, B, C, in_buffer, temp_buffer, issued, pending, vi,
                   exitCode, report, attempts, cnt, addends, lastIter, minGap>>

\* Lines 44-51: the local buffers are initialized.
KernelInit ==
    /\ InCall /\ hp = "init"
    /\ in_buffer' = LoadInput(A)
    /\ temp_buffer' = ZeroBuffer(temp_buffer)
    /\ issued' = 0
    /\ pending' = NoPending
    /\ cnt' = [r \in Idx |-> 0]
    /\ addends' = [r \in Idx |-> [c \in Idx |-> {}]]
    /\ lastIter' = [r \in Idx |-> -1]
    /\ minGap' = LoopBound
    /\ hp' = "loop"
    /\ UNCHANGED <<pc, inst, A, B, C, accessor_output, vi, exitCode, report, attempts>>

\* Lines 57-62, first half of outer iteration j = issued: its unrolled inner
\* loop reads temp_buffer[j % kRowLength][*] and in_buffer[*][j % kRowLength].
IssueIteration ==
    /\ InCall /\ hp = "loop"
    /\ issued < LoopBound
    /\ MayIssue(issued, safe_len, pending)
    /\ \E order \in LaneOrders :
         pending' = [k \in DOMAIN pending \cup {issued} |->
                       IF k = issued THEN InnerSums(temp_buffer, in_buffer, issued, order)
                       ELSE pending[k]]
    /\ addends' = [addends EXCEPT ![Row(issued)] =
                     [i \in Idx |-> @[i] \cup {Addend(in_buffer, issued, i)}]]
    /\ issued' = issued + 1
    /\ UNCHANGED <<pc, hp, inst, A, B, C, in_buffer, temp_buffer, accessor_output, vi,
                   exitCode, report, attempts, cnt, lastIter, minGap>>

\* Lines 57-62, second half of an issued outer iteration k: its sums are
\* stored into temp_buffer[k % kRowLength][*].
StoreIteration ==
    /\ InCall /\ hp = "loop"
    /\ \E k \in DOMAIN pending :
         /\ temp_buffer' = [temp_buffer EXCEPT ![Row(k)] = pending[k]]
         /\ pending' = [m \in DOMAIN pending \ {k} |-> pending[m]]
         /\ cnt' = [cnt EXCEPT ![Row(k)] = @ + 1]
         /\ minGap' = IF lastIter[Row(k)] >= 0
                      THEN Min(minGap, Abs(k - lastIter[Row(k)]))
                      ELSE minGap
         /\ lastIter' = [lastIter EXCEPT ![Row(k)] = k]
    /\ UNCHANGED <<pc, hp, inst, A, B, C, in_buffer, accessor_output, issued, vi,
                   exitCode, report, attempts, addends>>

\* Lines 65-68: after the last outer iteration the result is written out.
KernelWrite ==
    /\ InCall /\ hp = "loop"
    /\ issued = LoopBound /\ pending = NoPending
    /\ accessor_output' = WriteResult(temp_buffer)
    /\ hp' = "profile"
    /\ UNCHANGED <<pc, inst, A, B, C, in_buffer, temp_buffer, issued, pending, vi,
                   exitCode, report, attempts, cnt, addends, lastIter, minGap>>

\* Variant: both calls copy their output into B.
ReturnAliased ==
    /\ InCall /\ hp = "profile"
    /\ B' = accessor_output /\ C' = C
    /\ IF pc = "call1" THEN pc' = "call2" /\ hp' = "queue"
                       ELSE pc' = "verify" /\ hp' = "idle"
    /\ UNCHANGED <<inst, A, in_buffer, temp_buffer, accessor_output, issued, pending,
                   vi, exitCode, report, attempts, cnt, addends, lastIter, minGap>>

\* Lines 72-99: the profiling info is read, the buffers leave scope (the
\* output buffer is copied back to m_output), the timing is printed and the
\* call returns; m_output is B in the first call and C in the second.
Return ==
    /\ InCall /\ hp = "profile"
    /\ IF pc = "call1"
       THEN /\ B' = accessor_output /\ C' = C
            /\ pc' = "call2" /\ hp' = "queue"
       ELSE /\ C' = accessor_output /\ B' = B
            /\ pc' = "verify" /\ hp' = "idle"
    /\ UNCHANGED <<inst, A, in_buffer, temp_buffer, accessor_output, issued, pending,
                   vi, exitCode, report, attempts, cnt, addends, lastIter, minGap>>

\* Variant: the handler prints the diagnostic and falls through to the return.
ThrowAndContinue ==
    /\ InCall /\ hp \in {"queue", "submit", "profile"}
    /\ report' = [report EXCEPT !.diag = @ + 1]
    /\ IF pc = "call1" THEN pc' = "call2" /\ hp' = "queue"
                       ELSE pc' = "verify" /\ hp' = "idle"
    /\ UNCHANGED <<inst, A, B, C, in_buffer, temp_buffer, accessor_output, issued,
                   pending, vi, exitCode, attempts, cnt, addends, lastIter, minGap>>

\* Lines 78-91: a sycl::exception from the queue, the submission or the
\* profiling query is caught, a diagnostic is printed and std::terminate is
\* called. Unwinding out of the profiling query destroys the buffers, which
\* copies the finished output back.
Throw ==
    /\ InCall /\ hp \in {"queue", "submit", "profile"}
    /\ report' = [report EXCEPT !.diag = @ + 1]
    /\ IF hp = "profile"
       THEN IF pc = "call1" THEN B' = accessor_output /\ C' = C
                            ELSE C' = accessor_output /\ B' = B
       ELSE B' = B /\ C' = C
    /\ pc' = "terminated" /\ hp' = "idle"
    /\ UNCHANGED <<inst, A, in_buffer, temp_buffer, accessor_output, issued, pending,
                   vi, exitCode, attempts, cnt, addends, lastIter, minGap>>

---------------------------------------------------------------------------
(* main, lines 122-130 *)

\* One pass of the verification loop body.
VerifyStep ==
    /\ pc = "verify" /\ vi < kMatrixSize
    /\ IF Mismatch(B[vi], C[vi])
       THEN /\ report' = [report EXCEPT !.failed = @ + 1]
            /\ exitCode' = 1
            /\ pc' = "exit"
            /\ vi' = vi
       ELSE /\ vi' = vi + 1
            /\ UNCHANGED <<report, exitCode, pc>>
    /\ UNCHANGED <<hp, inst, A, B, C, in_buffer, temp_buffer, accessor_output, issued,
                   pending, attempts, cnt, addends, lastIter, minGap>>

\* The loop ran to its end.
VerifyPass ==
    /\ pc = "verify" /\ vi = kMatrixSize
    /\ report' = [report EXCEPT !.passed = @ + 1]
    /\ exitCode' = 0
    /\ pc' = "exit"
    /\ UNCHANGED <<hp, inst, A, B, C, in_buffer, temp_buffer, accessor_output, issued,
                   pending, vi, attempts, cnt, addends, lastIter, minGap>>

---------------------------------------------------------------------------
(* Specifications *)

InitCommon ==
    /\ in_buffer = UndefBuffer /\ temp_buffer = UndefBuffer
    /\ accessor_output = UndefArray
    /\ issued = 0 /\ pending = NoPending
    /\ vi = 0 /\ exitCode = NoExit
    /\ report = [passed |-> 0, failed |-> 0, diag |-> 0]
    /\ cnt = [r \in Idx |-> 0]
    /\ addends = [r \in Idx |-> [c \in Idx |-> {}]]
    /\ lastIter = [r \in Idx |-> -1]
    /\ minGap = LoopBound

\* main as written: lines 102-118, A holds random data, B and C are not yet
\* written, the kernel is instantiated with kMinSafelen and kMaxSafelen.
Init ==
    /\ InitCommon
    /\ A \in [Cells -> Vals]
    /\ pc = "call1" /\ hp = "queue"
    /\ inst = <<kMinSafelen, kMaxSafelen>>
    /\ B = UndefArray /\ C = UndefArray
    /\ attempts = <<0, 0>>

Next ==
    \/ QueueCreate \/ Submit \/ KernelInit \/ IssueIteration \/ StoreIteration
    \/ KernelWrite \/ Return \/ Throw \/ VerifyStep \/ VerifyPass

Spec == Init /\ [][Next]_vars

\* The template under every instantiation the loop allows: the harness with
\* each call instantiated with any safe_len in [kMinSafelen, kMaxSafelen].
InitInst ==
    /\ InitCommon
    /\ A \in [Cells -> Vals]
    /\ pc = "call1" /\ hp = "queue"
    /\ inst \in (kMinSafelen .. kMaxSafelen) \X (kMinSafelen .. kMaxSafelen)
    /\ B = UndefArray /\ C = UndefArray
    /\ attempts = <<0, 0>>

SpecInst == InitInst /\ [][Next]_vars

\* The template instantiated past the loop's dependency distance: the second
\* call has safe_len = kMaxSafelen + 1, over the inputs that hold one value.
InitAnyLen ==
    /\ InitCommon
    /\ A \in {[i \in Cells |-> v] : v \in Vals}
    /\ pc = "call1" /\ hp = "queue"
    /\ inst \in (kMinSafelen .. kMaxSafelen) \X {kMaxSafelen + 1}
    /\ B = UndefArray /\ C = UndefArray
    /\ attempts = <<0, 0>>

SpecAnyLen == InitAnyLen /\ [][Next]_vars

\* The verification loop of main on its own, over any two output arrays.
InitVerify ==
    /\ InitCommon
    /\ A = [i \in Cells |-> 0]
    /\ pc = "verify" /\ hp = "idle"
    /\ inst = <<kMinSafelen, kMaxSafelen>>
    /\ B \in [Cells -> Vals] /\ C \in [Cells -> Vals]
    /\ attempts = <<1, 1>>

NextVerify == VerifyStep \/ VerifyPass

SpecVerify == InitVerify /\ [][NextVerify]_vars

---------------------------------------------------------------------------
(* Properties *)

\* x added to zero n times in float arithmetic.
RECURSIVE RepAdd(_, _)
RepAdd(x, n) == IF n = 0 THEN 0 ELSE FAdd(RepAdd(x, n - 1), x)

\* Input[0][r] + Input[1][r] + ... in float arithmetic, over the first n rows.
RECURSIVE ColSum(_, _, _)
ColSum(m, r, n) == IF n = 0 THEN 0 ELSE FAdd(ColSum(m, r, n - 1), m[(n - 1) * kRowLength + r])

\* The outputs of the calls that have returned.
Returned ==
    (IF pc \in {"call2", "verify", "exit"} THEN {B} ELSE {})
        \cup (IF pc \in {"verify", "exit"} THEN {C} ELSE {})

\* C1, as stated: after TransposeAndFold completes, every output cell (r, c)
\* is the sum over p of Input[p][r], so every output row is constant.
C1_OutputIsColumnSum ==
    \A out \in Returned : \A r, c \in Idx :
        out[r * kRowLength + c] = ColSum(A, r, kRowLength)

\* C1, amended: after TransposeAndFold completes, every output cell (r, c)
\* is the one input element Input[c][r] added to zero kRowLength * kRowLength
\* times; it is the transposed input scaled, and its rows need not be constant.
C1_OutputIsTransposedElementFolded ==
    \A out \in Returned : \A r, c \in Idx :
        out[r * kRowLength + c] = RepAdd(A[c * kRowLength + r], kRowLength * kRowLength)

\* Both calls have returned and a row of the output is not constant.
C1_Witness ==
    /\ pc = "verify"
    /\ \E r, c1, c2 \in Idx : B[r * kRowLength + c1] # B[r * kRowLength + c2]
    /\ \E r, c1, c2 \in Idx : C[r * kRowLength + c1] # C[r * kRowLength + c2]

\* C2: the output of the call with safe_len = 1 equals, element for element,
\* the output of the call with safe_len = kRowLength on the same input, and
\* likewise for every pair of safe_len values in [1, kRowLength].
C2_OutputsEqualAcrossSafeLen ==
    pc \in {"verify", "exit"} => \A i \in Cells : B[i] = C[i]

\* The calls with safe_len = 1 and safe_len = kRowLength have both returned
\* on an input that is not all zero.
C2_Witness ==
    /\ pc = "verify"
    /\ inst = <<kMinSafelen, kMaxSafelen>>
    /\ \E i \in Cells : B[i] > 0 /\ C[i] > 0

\* C6: two calls in sequence with the same safe_len on the same input give
\* the same output, and every call starts its loop from a zeroed accumulator
\* and a fresh copy of the input, whatever the call before it left behind.
C6_RerunGivesSameOutput ==
    /\ (pc \in {"verify", "exit"} /\ inst[1] = inst[2]) => B = C
    /\ (InCall /\ hp = "loop" /\ issued = 0) =>
          /\ \A r, c \in Idx : temp_buffer[r][c] = 0
          /\ in_buffer = LoadInput(A)

\* The second of two calls with the same safe_len has returned, the first
\* having left a non-zero accumulator behind.
C6_Witness ==
    /\ pc = "verify"
    /\ inst[1] = inst[2]
    /\ \E i \in Cells : B[i] > 0
    /\ B = C

\* C10: the outer loop runs kRowLength^3 iterations, so each accumulator cell
\* (r, c) is updated kRowLength^2 times, every update adds the one input
\* element Input[c][r], and the cell written out is that element added to
\* zero kRowLength^2 times: a function of Input[c][r] alone.
C10_EachCellFoldsOneElement ==
    (InCall /\ hp = "profile") =>
        /\ issued = kRowLength * kRowLength * kRowLength
        /\ \A r, c \in Idx :
             /\ cnt[r] = kRowLength * kRowLength
             /\ addends[r][c] = {A[c * kRowLength + r]}
             /\ accessor_output[r * kRowLength + c]
                  = RepAdd(A[c * kRowLength + r], kRowLength * kRowLength)

\* A kernel has finished on an input with two different elements in one
\* input row, which land in different output rows.
C10_Witness ==
    /\ InCall /\ hp = "profile"
    /\ \E c, r1, r2 \in Idx :
         /\ A[c * kRowLength + r1] # A[c * kRowLength + r2]
         /\ accessor_output[r1 * kRowLength + c] # accessor_output[r2 * kRowLength + c]

\* C3: with both outputs in hand, main returns 0 exactly when all pairs
\* B[i], C[i] are equal; otherwise it returns 1 at the first mismatching
\* index, having printed FAILED once and never PASSED.
C3_ExitStatusMatchesComparison ==
    /\ pc = "exit" =>
          /\ exitCode \in {0, 1}
          /\ exitCode = 0 <=> (\A i \in Cells : B[i] = C[i])
          /\ exitCode = 0 => report.passed = 1 /\ report.failed = 0
          /\ exitCode = 1 =>
                /\ B[vi] # C[vi]
                /\ \A i \in 0 .. (vi - 1) : B[i] = C[i]
                /\ report.failed = 1 /\ report.passed = 0
    /\ pc # "exit" => exitCode = NoExit /\ report.passed = 0 /\ report.failed = 0

\* main returned 1 at a mismatch that is neither at index 0 nor the only one.
C3_Witness ==
    /\ pc = "exit" /\ exitCode = 1
    /\ vi > 0
    /\ \E i \in Cells : i > vi /\ B[i] # C[i]

\* C4, as stated: an instantiation with safe_len > kRowLength is rejected
\* before its kernel starts: no outer iteration runs and no output is written.
C4_OverlongSafeLenRejected ==
    (pc = "call2" /\ inst[2] > kRowLength) =>
        /\ hp \in {"queue", "submit", "init"}
        /\ C = UndefArray

\* C4, amended: safe_len = 1 and safe_len = kRowLength are accepted, and so is
\* safe_len = kRowLength + 1: nothing in the source checks safe_len, every
\* instantiation runs all kRowLength^3 outer iterations and writes every
\* element of its output.
C4_EveryInstantiationRuns ==
    /\ (InCall /\ hp = "profile") =>
          /\ issued = kMatrixSize * kRowLength
          /\ pending = NoPending
          /\ \A i \in Cells : accessor_output[i] # Undef
    /\ \A out \in Returned : \A i \in Cells : out[i] # Undef

\* The call with safe_len = kRowLength + 1 has run and returned its output.
C4_Witness ==
    /\ pc = "verify"
    /\ inst[2] = kRowLength + 1
    /\ \A i \in Cells : C[i] # Undef

\* C5: a runtime failure inside TransposeAndFold prints a diagnostic and ends
\* the process abnormally at once: the comparison is never reached, neither
\* PASSED nor FAILED is printed, main returns no status, nothing runs after
\* it and no queue is constructed a second time.
C5_FailureTerminates ==
    /\ report.diag > 0 =>
          /\ pc = "terminated"
          /\ report.diag = 1
          /\ report.passed = 0 /\ report.failed = 0
          /\ exitCode = NoExit
          /\ vi = 0
    /\ pc = "terminated" => report.diag = 1 /\ ~ ENABLED Next
    /\ attempts[1] <= 1 /\ attempts[2] <= 1

\* The second call failed after the first had returned.
C5_Witness ==
    /\ pc = "terminated"
    /\ report.diag = 1
    /\ attempts = <<1, 1>>

\* The iterations before k that write the accumulator row k writes.
Prior(k) == Cardinality({j \in 0 .. (k - 1) : Row(j) = Row(k)})

\* C7: two distinct outer iterations that write the same accumulator row are
\* at least kRowLength apart, so with safe_len = 1 and safe_len = kRowLength
\* no two iterations fewer than safe_len apart write the same location.
C7_ConflictDistanceCoversSafeLen ==
    /\ minGap >= kRowLength
    /\ InCall => safe_len <= minGap
    /\ \A j1, j2 \in 0 .. (issued - 1) :
          (j1 # j2 /\ Row(j1) = Row(j2)) => Abs(j1 - j2) >= kRowLength
    /\ \A j1, j2 \in DOMAIN pending : j1 # j2 => Row(j1) # Row(j2)

\* With safe_len = kRowLength, a row has been stored to by two iterations
\* exactly kRowLength apart.
C7_Witness ==
    /\ pc = "call2" /\ hp = "loop"
    /\ minGap = kRowLength
    /\ safe_len = kRowLength

\* C8: under every schedule in which only iterations fewer than safe_len
\* apart overlap or are reordered, and the lanes of the unrolled inner loop
\* take effect in any order, each read-modify-write of an accumulator cell
\* sees exactly the updates of the earlier iterations on that cell: none is
\* lost, and the final accumulator is that of the sequential execution.
C8_ScheduleIndependent ==
    /\ (InCall /\ hp = "loop") =>
          /\ \A r, c \in Idx : temp_buffer[r][c] = RepAdd(in_buffer[c][r], cnt[r])
          /\ \A k \in DOMAIN pending : \A i \in Idx :
                pending[k][i] = RepAdd(in_buffer[i][Row(k)], Prior(k) + 1)
    /\ (InCall /\ hp = "profile") =>
          \A r, c \in Idx :
             temp_buffer[r][c] = RepAdd(in_buffer[c][r], kRowLength * kRowLength)

\* With safe_len = kRowLength, kRowLength iterations are in flight at once,
\* after earlier iterations have stored non-zero sums.
C8_Witness ==
    /\ pc = "call2" /\ hp = "loop"
    /\ Cardinality(DOMAIN pending) = kRowLength
    /\ issued > kRowLength
    /\ \E r, c \in Idx : temp_buffer[r][c] > 0

\* C9: the comparison starts only after both calls have returned and each
\* has written every element of its own output; neither call changes A, and
\* neither writes the other call's output.
C9_CompareAfterBothComplete ==
    /\ [](/\ pc \in {"verify", "exit"} =>
               /\ attempts = <<1, 1>>
               /\ hp = "idle" /\ pending = NoPending
               /\ \A i \in Cells : B[i] # Undef /\ C[i] # Undef
          /\ (vi > 0 \/ report.passed > 0 \/ report.failed > 0) => pc \in {"verify", "exit"})
    /\ [][/\ A' = A
          /\ pc = "call1" => C' = C
          /\ pc = "call2" => B' = B]_vars

\* The comparison has started.
C9_Witness ==
    /\ pc = "verify"
    /\ vi = 1

=============================================================================
